---- MODULE Spec2Model ----
\* Model of SparkConnectClient (crates/connect/src/client/mod.rs): the
\* execute -> stream -> reattach -> release driver and the per-response
\* dispatch onto the ResponseHandler accumulator.
EXTENDS Naturals, Integers, Sequences, FiniteSets, TLC

\* ---------------------------------------------------------------- bounds
\* execute calls issued in one behaviour
MaxOps == 2
\* response messages the server delivers to one operation (over all its streams)
MaxMsgs == 2
\* nested reattach_execute frames of one operation
MaxReattach == 2
\* tags held by the client at once
MaxTags == 3
\* client clones sharing the stub
NumClones == 2

\* ---------------------------------------------------------------- values
\* Option<T>: None is the empty tuple, Some(v) the one-element tuple.
None == <<>>
Some(v) == <<v>>
is_some(o) == o # <<>>
unwrap(o) == o[1]

\* builder.session_id, fixed at construction, and a session id of another session
session_id == "session"
OtherSession == "other"

\* Uuid::new_v4(): the n-th minted operation id; all minted ids differ
Uuid(n) == n
\* an operation id no execute request of this client carries
ForeignOperationId == Uuid(MaxOps + 1)

\* the response id the server assigns to the k-th message of the o-th operation
ResponseIdOf(o, k) == (o - 1) * (MaxMsgs + 1) + k

\* ResponseHandler::default()
ResponseHandlerDefault ==
    [ metrics |-> None,
      observed_metrics |-> None,
      schema |-> None,
      batches |-> <<>>,
      sql_command_result |-> None,
      write_stream_operation_start_result |-> None,
      streaming_query_command_result |-> None,
      get_resources_command_result |-> None,
      streaming_query_manager_command_result |-> None,
      result_complete |-> FALSE,
      total_count |-> 0 ]

\* ---------------------------------------------------------------- state
VARIABLES
    operation_id,               \* SparkConnectClient.operation_id : Option
    response_id,                \* SparkConnectClient.response_id : Option
    handler,                    \* SparkConnectClient.handler : ResponseHandler
    use_reattachable_execute,   \* SparkConnectClient.use_reattachable_execute
    pc,         \* "idle" | "stream" (awaiting stream.message()) | "unwind" (process_stream
                \* returned Ok) | "panicked"
    depth,      \* reattach_execute frames on the stack of the running execute_and_fetch
    result,     \* what the latest execute_and_fetch returned ("Pending" while it runs)
    sent,       \* requests put on the wire by the running / latest execute_and_fetch, in order
    ops,        \* operation ids handed out so far (one per request built or executed)
    msgs,       \* messages delivered to the running operation
    last_event, \* the latest item stream.message() yielded to the running operation
    last_accepted, \* the latest response of the running operation that passed validate_session
    entry,      \* the public function that is running or that panicked ("none" at rest)
    tags,       \* SparkConnectClient.tags : Vec<String>
    call,       \* the latest add_tag / remove_tag / clear_tags / interrupt_request /
                \* analyze call: its arguments, what it returned, what it put on
                \* the wire or got from it
    analyzer,   \* SparkConnectClient.analyzer : AnalyzeHandler
    task,       \* per client clone sharing the stub: where its execute_and_fetch stands
    holds       \* per client clone: whether it holds the write guard of the stub lock

vars == << operation_id, response_id, handler, use_reattachable_execute,
           pc, depth, result, sent, ops, msgs, last_event, last_accepted, entry,
           tags, call, analyzer, task, holds >>

\* the variables of the execute driver of one client
driver_vars == << operation_id, response_id, handler, use_reattachable_execute,
                 pc, depth, result, sent, ops, msgs, last_event, last_accepted, entry >>
calls_vars == << tags, call, analyzer >>
stub_vars == << task, holds >>

\* the mutable client fields as one value, for the operators that model methods
Self == [ operation_id |-> operation_id,
          response_id |-> response_id,
          handler |-> handler,
          use_reattachable_execute |-> use_reattachable_execute ]

\* ---------------------------------------------------------------- inputs
\* Arrow IPC payloads: whether the stream header parses, and the batches the
\* reader yields (a batch that fails to decode has ok = FALSE). A batch has
\* one column, of the data type its schema names.
BatchOf(n, tag, type) == [ ok |-> TRUE, num_rows |-> n, id |-> tag, schema |-> type ]
Batch(n, tag) == BatchOf(n, tag, "Utf8")
CorruptBatch == [ ok |-> FALSE, num_rows |-> 0, id |-> 0, schema |-> "Utf8" ]
\* the rows of a list of batches
RECURSIVE SumRows(_)
SumRows(bs) == IF bs = << >> THEN 0 ELSE bs[1].num_rows + SumRows(Tail(bs))

ArrowData(bs) == [ readable |-> TRUE, batches |-> bs ]
UnreadableData == [ readable |-> FALSE, batches |-> <<>> ]

ArrowBatch(data, row_count) == [ type |-> "ArrowBatch", data |-> data, row_count |-> row_count ]
CommandResult(type, v) == [ type |-> type, v |-> v ]
ResultComplete == [ type |-> "ResultComplete" ]
Extension == [ type |-> "Extension" ]

CommandResultTypes ==
    { "SqlCommandResult", "WriteStreamOperationStartResult",
      "StreamingQueryCommandResult", "GetResourcesCommandResult",
      "StreamingQueryManagerCommandResult" }

\* the command results the server sends in the runs that are explored: the
\* first and the last arm of the match in handle_response
CommandResultsSent ==
    { t \in CommandResultTypes :
        t \in { "SqlCommandResult", "StreamingQueryManagerCommandResult" } }

ExecutePlanResponse(sid, op, rid, schema, metrics, payload) ==
    [ session_id |-> sid, operation_id |-> op, response_id |-> rid,
      schema |-> schema, metrics |-> metrics, response_type |-> payload ]

\* The payloads the server may put in the response with id rid.
Payloads(rid) ==
    { None,
      Some(ArrowBatch(ArrowData(<< Batch(2, rid) >>), 2)),
      Some(ArrowBatch(ArrowData(<< Batch(2, rid) >>), 3)),
      Some(ArrowBatch(ArrowData(<< BatchOf(2, rid, "Int64") >>), 2)),
      Some(ArrowBatch(ArrowData(<< Batch(0, rid) >>), 0)),
      Some(ArrowBatch(ArrowData(<< Batch(1, rid), Batch(2, rid) >>), 1)),
      Some(ArrowBatch(ArrowData(<< Batch(1, rid), CorruptBatch >>), 1)),
      Some(ArrowBatch(UnreadableData, 2)),
      Some(ResultComplete),
      Some(Extension) }
    \cup { Some(CommandResult(t, rid)) : t \in CommandResultsSent }

\* The responses the server may send as the message with id rid of the
\* operation whose execute request carried operation id op.
Responses(op, rid) ==
    { ExecutePlanResponse(session_id, op, rid, None, None, p) : p \in Payloads(rid) }
    \cup { ExecutePlanResponse(session_id, op, rid, Some(rid), Some(rid), None),
           ExecutePlanResponse(session_id, ForeignOperationId, rid, None, None, None),
           ExecutePlanResponse(OtherSession, op, rid, Some(rid), Some(rid),
                               Some(ArrowBatch(ArrowData(<< Batch(2, rid) >>), 2))),
           ExecutePlanResponse(OtherSession, op, rid, None, None, Some(ResultComplete)) }

\* what stream.message() yielded: Ok(Some(msg)), Ok(None) or Err(status)
NoEvent == [ kind |-> "none" ]
Message(resp) == [ kind |-> "message", msg |-> resp ]
EndOfStream == [ kind |-> "eof" ]
TransportError == [ kind |-> "error" ]

\* ---------------------------------------------------------------- requests
\* request_options(): ReattachOptions{reattachable: true} in reattachable mode
request_options(self) ==
    IF self.use_reattachable_execute THEN << [ reattachable |-> TRUE ] >> ELSE << >>

\* execute_plan_request_with_metadata(): mints the operation id, stores it on
\* the client and stamps the request with it. n numbers the mint.
execute_plan_request_with_metadata(self, n) ==
    LET id == Uuid(n)
        s1 == [ self EXCEPT !.operation_id = Some(id) ]
    IN  [ self |-> s1,
          req |-> [ rpc |-> "ExecutePlan",
                    session_id |-> session_id,
                    operation_id |-> Some(id),
                    request_options |-> request_options(s1) ] ]

\* an ExecutePlanRequest the caller of execute_and_fetch built without
\* execute_plan_request_with_metadata: same fields, but no operation id is
\* minted, so the request carries none and the client stores none.
CallerBuiltRequest(self) ==
    [ rpc |-> "ExecutePlan",
      session_id |-> session_id,
      operation_id |-> None,
      request_options |-> request_options(self) ]

\* reattach_execute that forgets the resume token
ReattachExecuteRequest_without_token(self) ==
    [ rpc |-> "ReattachExecute",
      session_id |-> session_id,
      operation_id |-> unwrap(self.operation_id),
      last_response_id |-> None ]

\* the ReattachExecuteRequest reattach_execute builds
ReattachExecuteRequest(self) ==
    [ rpc |-> "ReattachExecute",
      session_id |-> session_id,
      operation_id |-> unwrap(self.operation_id),
      last_response_id |-> self.response_id ]

ReleaseAll == [ type |-> "ReleaseAll" ]
ReleaseUntil(rid) == [ type |-> "ReleaseUntil", response_id |-> rid ]

\* the ReleaseExecuteRequest release_execute builds
ReleaseExecuteRequest(self, release) ==
    [ rpc |-> "ReleaseExecute",
      session_id |-> session_id,
      operation_id |-> unwrap(self.operation_id),
      release |-> release ]

\* release_until(): the release it asks release_execute to send
release_until(self) == ReleaseExecuteRequest(self, Some(ReleaseUntil(unwrap(self.response_id))))

\* release_all(): the release it asks release_execute to send
release_all(self) == ReleaseExecuteRequest(self, Some(ReleaseAll))

\* ---------------------------------------------------------------- dispatch
\* validate_session that accepts every session id
validate_session_accept_all(sid) == "Ok"

\* validate_session(): Ok iff the id equals the builder's session id
validate_session(sid) ==
    IF session_id # sid THEN "SessionMismatch" ELSE "Ok"

\* a deserialize loop that appends without comparing the row counts
RECURSIVE deserialize_from_unchecked(_, _, _, _)
deserialize_from_unchecked(h, bs, i, row_count) ==
    IF i > Len(bs) THEN [ handler |-> h, res |-> "Ok" ]
    ELSE IF ~bs[i].ok THEN [ handler |-> h, res |-> "DecodeError" ]
    ELSE deserialize_from_unchecked(
            [ h EXCEPT !.batches = Append(@, bs[i]),
                       !.total_count = @ + row_count ],
            bs, i + 1, row_count)

\* deserialize(): the loop over the batches the reader yields, from batch i on
RECURSIVE deserialize_from(_, _, _, _)
deserialize_from(h, bs, i, row_count) ==
    IF i > Len(bs) THEN [ handler |-> h, res |-> "Ok" ]
    ELSE IF ~bs[i].ok THEN [ handler |-> h, res |-> "DecodeError" ]
    ELSE IF bs[i].num_rows # row_count THEN [ handler |-> h, res |-> "FramingError" ]
    ELSE deserialize_from(
            [ h EXCEPT !.batches = Append(@, bs[i]),
                       !.total_count = @ + row_count ],
            bs, i + 1, row_count)

\* deserialize(res, row_count)
deserialize(h, data, row_count) ==
    IF ~data.readable THEN [ handler |-> h, res |-> "DecodeError" ]
    ELSE deserialize_from(h, data.batches, 1, row_count)

\* the match on resp.response_type in handle_response
dispatch(h, data) ==
    CASE data.type = "ArrowBatch" -> deserialize(h, data.data, data.row_count)
      [] data.type = "SqlCommandResult" ->
            [ handler |-> [ h EXCEPT !.sql_command_result = Some(data.v) ], res |-> "Ok" ]
      [] data.type = "WriteStreamOperationStartResult" ->
            [ handler |-> [ h EXCEPT !.write_stream_operation_start_result = Some(data.v) ],
              res |-> "Ok" ]
      [] data.type = "StreamingQueryCommandResult" ->
            [ handler |-> [ h EXCEPT !.streaming_query_command_result = Some(data.v) ],
              res |-> "Ok" ]
      [] data.type = "GetResourcesCommandResult" ->
            [ handler |-> [ h EXCEPT !.get_resources_command_result = Some(data.v) ],
              res |-> "Ok" ]
      [] data.type = "StreamingQueryManagerCommandResult" ->
            [ handler |-> [ h EXCEPT !.streaming_query_manager_command_result = Some(data.v) ],
              res |-> "Ok" ]
      [] data.type = "ResultComplete" ->
            [ handler |-> [ h EXCEPT !.result_complete = TRUE ], res |-> "Ok" ]
      [] data.type = "Extension" -> [ handler |-> h, res |-> "Panic" ]

\* handle_response that leaves the minted operation id in place
record_ids_keep_operation_id(self, resp) ==
    [ self EXCEPT !.response_id = Some(resp.response_id) ]

\* handle_response that records only the first response id it sees
record_ids_first_response_only(self, resp) ==
    [ self EXCEPT !.operation_id = Some(resp.operation_id),
                  !.response_id = IF is_some(@) THEN @ ELSE Some(resp.response_id) ]

\* handle_response: the two assignments that follow validate_session
record_ids(self, resp) ==
    [ self EXCEPT !.operation_id = Some(resp.operation_id),
                  !.response_id = Some(resp.response_id) ]

\* handle_response(resp): the client after the call and what the call returned
handle_response(self, resp) ==
    IF validate_session(resp.session_id) # "Ok"
    THEN [ self |-> self, res |-> validate_session(resp.session_id) ]
    ELSE
        LET s1 == record_ids(self, resp)
            h1 == IF is_some(resp.schema)
                  THEN [ s1.handler EXCEPT !.schema = resp.schema ] ELSE s1.handler
            h2 == IF is_some(resp.metrics)
                  THEN [ h1 EXCEPT !.metrics = resp.metrics ] ELSE h1
            out == IF is_some(resp.response_type)
                   THEN dispatch(h2, unwrap(resp.response_type))
                   ELSE [ handler |-> h2, res |-> "Ok" ]
        IN  [ self |-> [ s1 EXCEPT !.handler = out.handler ], res |-> out.res ]

\* ---------------------------------------------------------------- driver
\* an Ok(None) arm that never reattaches
reattach_on_end_never(self) == FALSE

\* an Ok(None) arm that reattaches in reattachable mode whatever was received
reattach_on_end_always(self) == self.use_reattachable_execute

\* process_stream, Ok(None) arm: whether it calls reattach_execute
reattach_on_end(self) ==
    self.use_reattachable_execute /\ ~self.handler.result_complete

\* an Err(err) arm that releases whatever the mode
release_on_error_any_mode(self) == is_some(self.response_id)

\* process_stream, Err(err) arm: whether it calls release_until
release_on_error(self) ==
    self.use_reattachable_execute /\ is_some(self.response_id)

\* process_stream, Err(err) arm: the error the arm returns, given how the
\* release_until call (if made) ended
error_after_release(released, release_ok) ==
    IF released /\ ~release_ok THEN "ReleaseError" ELSE "StreamError"

\* a tail that releases a completed operation whatever the mode
release_on_complete_any_mode(self) == self.handler.result_complete

\* execute_and_fetch / reattach_execute after process_stream returned Ok:
\* whether release_all is called
release_on_complete(self) ==
    self.use_reattachable_execute /\ self.handler.result_complete

\* ---------------------------------------------------------------- tags
\* Strings are sequences of characters; the tags the caller may pass.
TagInputs == { << >>, << "a" >>, << "b" >>, << "a", ",", "b" >>, << "," >> }

\* str::contains(char)
contains(str, ch) == \E i \in 1..Len(str) : str[i] = ch
\* str::is_empty()
is_empty(str) == Len(str) = 0

\* validate_tag that forgets the empty tag
validate_tag_comma_only(tag) ==
    IF contains(tag, ",") THEN "TagHasComma" ELSE "Ok"

\* validate_tag(tag)
validate_tag(tag) ==
    IF contains(tag, ",") THEN "TagHasComma"
    ELSE IF is_empty(tag) THEN "TagIsEmpty"
    ELSE "Ok"

\* a retain that drops only the first tag equal to the argument
RECURSIVE retain_drop_first(_, _)
retain_drop_first(ts, tag) ==
    IF ts = << >> THEN << >>
    ELSE IF Head(ts) = tag THEN Tail(ts)
    ELSE << Head(ts) >> \o retain_drop_first(Tail(ts), tag)

\* Vec::retain(|t| t != tag)
RECURSIVE retain(_, _)
retain(ts, tag) ==
    IF ts = << >> THEN << >>
    ELSE (IF Head(ts) # tag THEN << Head(ts) >> ELSE << >>) \o retain(Tail(ts), tag)

\* add_tag(tag): the tags after the call and what the call returned
add_tag(ts, tag) ==
    IF validate_tag(tag) # "Ok" THEN [ tags |-> ts, res |-> validate_tag(tag) ]
    ELSE [ tags |-> Append(ts, tag), res |-> "Ok" ]

\* remove_tag(tag)
remove_tag(ts, tag) ==
    IF validate_tag(tag) # "Ok" THEN [ tags |-> ts, res |-> validate_tag(tag) ]
    ELSE [ tags |-> retain(ts, tag), res |-> "Ok" ]

\* clear_tags()
clear_tags(ts) == [ tags |-> << >>, res |-> "Ok" ]

\* no public call other than execute has been made yet
NoCall == [ op |-> "none" ]

\* ---------------------------------------------------------------- analyze
\* the slots of AnalyzeHandler
AnalyzeSlots ==
    { "schema", "explain", "tree_string", "is_local", "is_streaming", "input_files",
      "spark_version", "ddl_parse", "same_semantics", "semantic_hash", "get_storage_level" }

\* AnalyzeHandler::default()
AnalyzeHandlerDefault == [ slot \in AnalyzeSlots |-> None ]

\* the variants of analyze_plan_response::Result
AnalyzeVariants ==
    { "Schema", "Explain", "TreeString", "IsLocal", "IsStreaming", "InputFiles",
      "SparkVersion", "DdlParse", "SameSemantics", "SemanticHash", "Persist", "Unpersist",
      "GetStorageLevel" }

\* the variants whose payload field is itself optional in the message
\* (schema.schema, ddl_parse.parsed, level.storage_level)
OptionalPayloadVariants == { "Schema", "DdlParse", "GetStorageLevel" }

\* a result of the given variant: with the payload field the handler reads,
\* with an optional message field (schema.schema, ddl_parse.parsed,
\* level.storage_level), or without any field the handler reads
AnalyzeResult(variant, v) == [ type |-> variant, v |-> v ]
OptionalAnalyzeResult(variant, o) == [ type |-> variant, field |-> o ]
EmptyAnalyzeResult(variant) == [ type |-> variant ]

AnalyzePlanResponse(sid, res) == [ session_id |-> sid, result |-> res ]

\* what the payload fields of analyze responses hold
AnalyzeValues == { "x", "y" }

\* the results the server may put in an analyze response
AnalyzeResults ==
    { AnalyzeResult(variant, v) :
        variant \in AnalyzeVariants \ (OptionalPayloadVariants \cup { "Persist", "Unpersist" }),
        v \in AnalyzeValues }
    \cup { OptionalAnalyzeResult(variant, o) :
             variant \in OptionalPayloadVariants,
             o \in { None } \cup { Some(v) : v \in AnalyzeValues } }
    \cup { EmptyAnalyzeResult("Persist"), EmptyAnalyzeResult("Unpersist") }

\* the responses the server may give to an analyze call
AnalyzeResponses ==
    { AnalyzePlanResponse(sid, res) :
        sid \in { session_id, OtherSession },
        res \in { None } \cup { Some(r) : r \in AnalyzeResults } }

\* what analyze asks about
AnalyzeInputs == { "Schema", "SparkVersion", "Persist" }

\* an analyze that leaves the accumulator of the previous call in place
analyzer_at_call_kept(a) == a

\* analyze(): the accumulator the call starts from,
\* `self.analyzer = AnalyzeHandler::default()`
analyzer_at_call(a) == AnalyzeHandlerDefault

\* handle_analyze(resp): the accumulator after the call and what the call returned
handle_analyze(a, resp) ==
    IF validate_session(resp.session_id) # "Ok"
    THEN [ analyzer |-> a, res |-> validate_session(resp.session_id) ]
    ELSE IF ~is_some(resp.result) THEN [ analyzer |-> a, res |-> "Ok" ]
    ELSE
        LET r == unwrap(resp.result)
            a1 == CASE r.type = "Schema" -> [ a EXCEPT !.schema = r.field ]
                    [] r.type = "Explain" -> [ a EXCEPT !.explain = Some(r.v) ]
                    [] r.type = "TreeString" -> [ a EXCEPT !.tree_string = Some(r.v) ]
                    [] r.type = "IsLocal" -> [ a EXCEPT !.is_local = Some(r.v) ]
                    [] r.type = "IsStreaming" -> [ a EXCEPT !.is_streaming = Some(r.v) ]
                    [] r.type = "InputFiles" -> [ a EXCEPT !.input_files = Some(r.v) ]
                    [] r.type = "SparkVersion" -> [ a EXCEPT !.spark_version = Some(r.v) ]
                    [] r.type = "DdlParse" -> [ a EXCEPT !.ddl_parse = r.field ]
                    [] r.type = "SameSemantics" -> [ a EXCEPT !.same_semantics = Some(r.v) ]
                    [] r.type = "SemanticHash" -> [ a EXCEPT !.semantic_hash = Some(r.v) ]
                    [] r.type = "Persist" -> a
                    [] r.type = "Unpersist" -> a
                    [] r.type = "GetStorageLevel" -> [ a EXCEPT !.get_storage_level = r.field ]
        IN  [ analyzer |-> a1, res |-> "Ok" ]

\* analyze(analyze): reset, dial analyze_plan, handle_analyze; outcome is the
\* response, or None when the RPC fails
analyze(a, outcome) ==
    IF ~is_some(outcome)
    THEN [ analyzer |-> analyzer_at_call(a), res |-> "RpcError" ]
    ELSE handle_analyze(analyzer_at_call(a), unwrap(outcome))

\* schema(), explain(), tree_string(), ...: the reader of one slot
reader(a, slot) ==
    IF is_some(a[slot]) THEN [ res |-> "Ok", v |-> unwrap(a[slot]) ]
    ELSE [ res |-> "AnalysisException" ]

\* ---------------------------------------------------------------- stub lock
\* the client clones that share one stub
Clones == 1..NumClones

\* a clone that is not inside execute_and_fetch
\* What the lock discipline depends on, per clone: where the clone stands
\* in its call, the fields the driver's conditions read, the
\* reattach_execute frames on its stack, and what the pending
\* release_execute call returns to.
DriverFields(setting, has_response_id, complete) ==
    [ use_reattachable_execute |-> setting,
      response_id |-> IF has_response_id THEN Some(0) ELSE None,
      handler |-> [ result_complete |-> complete ] ]

\* a clone between two calls: its fields stay as the last call left them
TaskIdle(self) == [ at |-> "idle", self |-> self, depth |-> 0, then |-> "none" ]

\* the clone of a client on which no operation ran
NewClone == TaskIdle(DriverFields(TRUE, FALSE, FALSE))

\* ---------------------------------------------------------------- actions
\* the id the server runs the running / latest operation under: the one
\* execute_plan_request_with_metadata minted, or the one the server assigned
\* to a request that carried none
MintedId == Uuid(ops)

client_vars == << operation_id, response_id, handler, use_reattachable_execute >>

\* SparkConnectClient::new
NewClient ==
    /\ operation_id = None
    /\ response_id = None
    /\ handler = ResponseHandlerDefault
    /\ use_reattachable_execute = TRUE
    /\ pc = "idle"
    /\ depth = 0
    /\ result = "None"
    /\ sent = << >>
    /\ ops = 0
    /\ msgs = 0
    /\ last_event = NoEvent
    /\ last_accepted = None
    /\ entry = "none"
    /\ tags = << >>
    /\ call = NoCall
    /\ analyzer = AnalyzeHandlerDefault

Init ==
    /\ NewClient
    /\ task = [ t \in Clones |-> NewClone ]
    /\ holds = [ t \in Clones |-> FALSE ]

\* the call returns r to the caller of execute_and_fetch; a panic
\* (unimplemented!, unwrap on None) unwinds the task that owns the client
Return(r) ==
    /\ pc' = IF r = "Panic" THEN "panicked" ELSE "idle"
    /\ depth' = 0
    /\ result' = r

\* the running public function stays the same until it returns
KeepEntry == entry' = IF pc' = "idle" THEN "none" ELSE entry

\* execute_and_fetch returns Ok(()) to the function that called it: to_arrow
\* goes on to concat_batches, the other callers return
FetchReturnsOk ==
    IF entry \in { "to_arrow", "to_first_value" }
    THEN /\ pc' = "to_arrow"
         /\ depth' = 0
         /\ result' = "Ok"
    ELSE Return("Ok")

\* execute_plan_request_with_metadata() called on its own: the minted id is
\* stored on the client, the request goes to the caller and is not sent
ExecutePlanRequestWithMetadata ==
    /\ pc = "idle"
    /\ ops < MaxOps
    /\ operation_id' = execute_plan_request_with_metadata(Self, ops + 1).self.operation_id
    /\ ops' = ops + 1
    /\ UNCHANGED << response_id, handler, use_reattachable_execute, pc, depth, result, sent,
                    msgs, last_event, last_accepted, entry >>
    /\ UNCHANGED << calls_vars, stub_vars >>

\* set_reattachable_execute(setting)
SetReattachableExecute(setting) ==
    /\ pc = "idle"
    /\ use_reattachable_execute' = setting
    /\ UNCHANGED << operation_id, response_id, handler, pc, depth, result, sent,
                    ops, msgs, last_event, last_accepted, entry >>
    /\ UNCHANGED << calls_vars, stub_vars >>

\* the head of execute_command, execute_command_and_fetch and to_arrow: build
\* the request with execute_plan_request_with_metadata, then execute_and_fetch
\* up to the point where it awaits the first stream message.
MintAndFetch(name, dial_ok) ==
    /\ pc = "idle"
    /\ ops < MaxOps
    /\ LET built == execute_plan_request_with_metadata(Self, ops + 1)
       IN  /\ operation_id' = built.self.operation_id
           /\ sent' = << built.req >>
    /\ ops' = ops + 1
    /\ msgs' = 0
    /\ last_event' = NoEvent
    /\ last_accepted' = None
    /\ IF dial_ok
       THEN /\ handler' = ResponseHandlerDefault
            /\ pc' = "stream"
            /\ depth' = 0
            /\ result' = "Pending"
       ELSE /\ handler' = handler
            /\ Return("DialError")
    /\ entry' = IF dial_ok THEN name ELSE "none"
    /\ UNCHANGED << response_id, use_reattachable_execute >>
    /\ UNCHANGED << calls_vars, stub_vars >>

\* execute_command / execute_command_and_fetch, which return what
\* execute_and_fetch returns (the latter with a clone of the handler)
ExecuteCommand(dial_ok) == MintAndFetch("execute_command", dial_ok)

\* to_arrow up to the first stream message
ToArrow(dial_ok) == MintAndFetch("to_arrow", dial_ok)

\* to_first_value up to the first stream message of its to_arrow
ToFirstValue(dial_ok) == MintAndFetch("to_first_value", dial_ok)

\* concat_batches(schema, batches): the columns are concatenated, which
\* fails for arrays of different data types
concat_batches(schema, batches) ==
    IF \A i \in 1..Len(batches) : batches[i].schema = schema
    THEN [ res |-> "Ok", rows |-> BatchOf(SumRows(batches), 0, schema) ]
    ELSE [ res |-> "ArrowError" ]

\* to_first_value on the rows to_arrow returned: column 0 is read as a
\* StringArray (unimplemented! for another data type) and value(0) is taken,
\* which panics on an array without rows
first_value(rows) ==
    IF rows.schema # "Utf8" THEN "Panic"
    ELSE IF rows.num_rows = 0 THEN "Panic"
    ELSE "Ok"

\* to_arrow after execute_and_fetch returned Ok: concat_batches over
\* handler.batches, with the schema of handler.batches[0]; the index panics
\* on an empty list and `?` returns the error of the concatenation. On Ok
\* to_first_value goes on with the rows.
ToArrowConcat ==
    /\ pc = "to_arrow"
    /\ IF Len(handler.batches) = 0
       THEN Return("Panic")
       ELSE IF concat_batches(handler.batches[1].schema, handler.batches).res # "Ok"
            THEN Return("ConcatError")
            ELSE IF entry = "to_first_value"
                 THEN /\ pc' = "to_first_value"
                      /\ depth' = 0
                      /\ result' = "Ok"
                 ELSE Return("Ok")
    /\ KeepEntry
    /\ UNCHANGED << client_vars, sent, ops, msgs, last_event, last_accepted >>
    /\ UNCHANGED << calls_vars, stub_vars >>

\* to_first_value after to_arrow returned Ok(rows)
ToFirstValueColumn ==
    /\ pc = "to_first_value"
    /\ Return(first_value(concat_batches(handler.batches[1].schema, handler.batches).rows))
    /\ KeepEntry
    /\ UNCHANGED << client_vars, sent, ops, msgs, last_event, last_accepted >>
    /\ UNCHANGED << calls_vars, stub_vars >>

\* execute_and_fetch(req) called directly with a request the caller built, up
\* to the point where it awaits the first stream message
ExecuteAndFetch(dial_ok) ==
    /\ pc = "idle"
    /\ ops < MaxOps
    /\ sent' = << CallerBuiltRequest(Self) >>
    /\ ops' = ops + 1
    /\ msgs' = 0
    /\ last_event' = NoEvent
    /\ last_accepted' = None
    /\ IF dial_ok
       THEN /\ handler' = ResponseHandlerDefault
            /\ pc' = "stream"
            /\ depth' = 0
            /\ result' = "Pending"
       ELSE /\ handler' = handler
            /\ Return("DialError")
    /\ entry' = IF dial_ok THEN "execute_and_fetch" ELSE "none"
    /\ UNCHANGED << operation_id, response_id, use_reattachable_execute >>
    /\ UNCHANGED << calls_vars, stub_vars >>

\* process_stream, Ok(Some(msg)) arm, for the message resp
HandleMessage(resp) ==
    /\ LET out == handle_response(Self, resp)
       IN  /\ operation_id' = out.self.operation_id
           /\ response_id' = out.self.response_id
           /\ handler' = out.self.handler
           /\ IF out.res = "Ok"
              THEN UNCHANGED << pc, depth, result >>
              ELSE Return(out.res)
    /\ msgs' = msgs + 1
    /\ last_event' = Message(resp)
    /\ last_accepted' = IF validate_session(resp.session_id) = "Ok" THEN Some(resp)
                        ELSE last_accepted
    /\ KeepEntry
    /\ UNCHANGED << use_reattachable_execute, sent, ops >>
    /\ UNCHANGED << calls_vars, stub_vars >>

\* process_stream, Ok(Some(msg)) arm: the server delivers the next message of
\* the running operation
StreamMessage ==
    /\ pc = "stream"
    /\ msgs < MaxMsgs
    /\ \E resp \in Responses(MintedId, ResponseIdOf(ops, msgs + 1)) : HandleMessage(resp)

\* process_stream, Ok(None) arm: reattach_execute up to the point where it
\* awaits the first message of the new stream, or the end of the loop
StreamEnd(dial_ok) ==
    /\ pc = "stream"
    /\ last_event' = EndOfStream
    /\ IF reattach_on_end(Self)
       THEN /\ depth < MaxReattach
            /\ IF is_some(operation_id)
               THEN /\ sent' = Append(sent, ReattachExecuteRequest(Self))
                    /\ IF dial_ok
                       THEN /\ depth' = depth + 1
                            /\ UNCHANGED << pc, result >>
                       ELSE Return("DialError")
               ELSE /\ sent' = sent
                    /\ Return("Panic")
       ELSE /\ dial_ok
            /\ pc' = "unwind"
            /\ UNCHANGED << depth, result, sent >>
    /\ KeepEntry
    /\ UNCHANGED << client_vars, ops, msgs, last_accepted >>
    /\ UNCHANGED << calls_vars, stub_vars >>

\* process_stream, Err(err) arm
StreamError(release_ok) ==
    /\ pc = "stream"
    /\ last_event' = TransportError
    /\ IF release_on_error(Self)
       THEN IF is_some(operation_id)
            THEN /\ sent' = Append(sent, release_until(Self))
                 /\ Return(error_after_release(TRUE, release_ok))
            ELSE /\ sent' = sent
                 /\ Return("Panic")
       ELSE /\ release_ok
            /\ sent' = sent
            /\ Return(error_after_release(FALSE, release_ok))
    /\ KeepEntry
    /\ UNCHANGED << client_vars, ops, msgs, last_accepted >>
    /\ UNCHANGED << calls_vars, stub_vars >>

\* the tail of reattach_execute (depth > 0) or of execute_and_fetch (depth = 0)
\* once its process_stream call returned Ok
Unwind(release_ok) ==
    /\ pc = "unwind"
    /\ IF release_on_complete(Self)
       THEN IF is_some(operation_id)
            THEN /\ sent' = Append(sent, release_all(Self))
                 /\ IF ~release_ok THEN Return("ReleaseError")
                    ELSE IF depth > 0
                         THEN /\ depth' = depth - 1
                              /\ UNCHANGED << pc, result >>
                         ELSE FetchReturnsOk
            ELSE /\ sent' = sent
                 /\ Return("Panic")
       ELSE /\ release_ok
            /\ sent' = sent
            /\ IF depth > 0
               THEN /\ depth' = depth - 1
                    /\ UNCHANGED << pc, result >>
               ELSE FetchReturnsOk
    /\ KeepEntry
    /\ UNCHANGED << client_vars, ops, msgs, last_event, last_accepted >>
    /\ UNCHANGED << calls_vars, stub_vars >>

Next ==
    \/ \E setting \in BOOLEAN : SetReattachableExecute(setting)
    \/ ExecutePlanRequestWithMetadata
    \/ \E dial_ok \in BOOLEAN : ExecuteCommand(dial_ok)
    \/ \E dial_ok \in BOOLEAN : ToArrow(dial_ok)
    \/ \E dial_ok \in BOOLEAN : ToFirstValue(dial_ok)
    \/ ToArrowConcat
    \/ ToFirstValueColumn
    \/ \E dial_ok \in BOOLEAN : ExecuteAndFetch(dial_ok)
    \/ StreamMessage
    \/ \E dial_ok \in BOOLEAN : StreamEnd(dial_ok)
    \/ \E release_ok \in BOOLEAN : StreamError(release_ok)
    \/ \E release_ok \in BOOLEAN : Unwind(release_ok)

Spec == Init /\ [][Next]_vars

\* ---------------------------------------------------------------- tag and interrupt calls
\* interrupt_request(interrupt_type, id_or_tag) up to the point where it takes
\* the stub lock: the request it built, or how it ended before building one
InterruptTypes == { "All", "Tag", "OperationId", "Unspecified" }
IdOrTagInputs == { None, Some(<< "a" >>), Some(<< "b" >>) }

\* an interrupt_request that copies id_or_tag into the request whatever the type
InterruptRequest_payload_always(interrupt_type, id_or_tag) ==
    IF interrupt_type = "Unspecified" THEN [ res |-> "AnalysisException", req |-> None ]
    ELSE IF interrupt_type # "All" /\ ~is_some(id_or_tag) THEN [ res |-> "Panic", req |-> None ]
    ELSE [ res |-> "Ok",
           req |-> Some([ rpc |-> "Interrupt",
                          session_id |-> session_id,
                          interrupt_type |-> interrupt_type,
                          interrupt |-> IF is_some(id_or_tag)
                                        THEN Some([ type |-> "OperationTag", v |-> unwrap(id_or_tag) ])
                                        ELSE None ]) ]

\* the InterruptRequest interrupt_request builds
InterruptRequest(interrupt_type, id_or_tag) ==
    CASE interrupt_type = "All" ->
            [ res |-> "Ok",
              req |-> Some([ rpc |-> "Interrupt",
                             session_id |-> session_id,
                             interrupt_type |-> "All",
                             interrupt |-> None ]) ]
      [] interrupt_type = "Tag" ->
            IF is_some(id_or_tag)
            THEN [ res |-> "Ok",
                   req |-> Some([ rpc |-> "Interrupt",
                                  session_id |-> session_id,
                                  interrupt_type |-> "Tag",
                                  interrupt |-> Some([ type |-> "OperationTag",
                                                       v |-> unwrap(id_or_tag) ]) ]) ]
            ELSE [ res |-> "Panic", req |-> None ]
      [] interrupt_type = "OperationId" ->
            IF is_some(id_or_tag)
            THEN [ res |-> "Ok",
                   req |-> Some([ rpc |-> "Interrupt",
                                  session_id |-> session_id,
                                  interrupt_type |-> "OperationId",
                                  interrupt |-> Some([ type |-> "OperationId",
                                                       v |-> unwrap(id_or_tag) ]) ]) ]
            ELSE [ res |-> "Panic", req |-> None ]
      [] interrupt_type = "Unspecified" ->
            [ res |-> "AnalysisException", req |-> None ]

\* add_tag(tag)
AddTag(tag) ==
    /\ pc = "idle"
    /\ Len(tags) < MaxTags
    /\ tags' = add_tag(tags, tag).tags
    /\ call' = [ op |-> "add_tag", tag |-> tag, res |-> add_tag(tags, tag).res,
                 before |-> tags ]
    /\ UNCHANGED << driver_vars, stub_vars, analyzer >>

\* remove_tag(tag)
RemoveTag(tag) ==
    /\ pc = "idle"
    /\ tags' = remove_tag(tags, tag).tags
    /\ call' = [ op |-> "remove_tag", tag |-> tag, res |-> remove_tag(tags, tag).res,
                 before |-> tags ]
    /\ UNCHANGED << driver_vars, stub_vars, analyzer >>

\* clear_tags()
ClearTags ==
    /\ pc = "idle"
    /\ tags' = clear_tags(tags).tags
    /\ call' = [ op |-> "clear_tags", res |-> clear_tags(tags).res, before |-> tags ]
    /\ UNCHANGED << driver_vars, stub_vars, analyzer >>

\* interrupt_request(interrupt_type, id_or_tag): build the request, take the
\* stub lock, make the Interrupt RPC; expect() on a missing id_or_tag panics
InterruptCall(interrupt_type, id_or_tag, rpc_ok) ==
    /\ pc = "idle"
    /\ LET built == InterruptRequest(interrupt_type, id_or_tag)
       IN  /\ call' = [ op |-> "interrupt_request",
                        interrupt_type |-> interrupt_type,
                        id_or_tag |-> id_or_tag,
                        req |-> built.req,
                        res |-> IF built.res = "Ok" /\ ~rpc_ok THEN "RpcError" ELSE built.res ]
           /\ built.res # "Ok" => rpc_ok
           /\ pc' = IF built.res = "Panic" THEN "panicked" ELSE pc
    /\ UNCHANGED << operation_id, response_id, handler, use_reattachable_execute,
                    depth, result, sent, ops, msgs, last_event, last_accepted, entry >>
    /\ UNCHANGED << tags, stub_vars, analyzer >>

\* the client right after SparkConnectClient::new, in either mode setting
FreshClient(setting) ==
    [ operation_id |-> None, response_id |-> None, handler |-> ResponseHandlerDefault,
      use_reattachable_execute |-> setting ]

\* the first responses of the first operation that handle_response accepts
FirstResponses ==
    { r \in Responses(Uuid(1), ResponseIdOf(1, 1)) :
        handle_response(FreshClient(TRUE), r).res = "Ok" /\ r.session_id = session_id }

\* the driver after ExecuteCommand(TRUE), StreamMessage with resp and
\* StreamError(TRUE) on a fresh reattachable client
AfterOneOperation(resp) ==
    LET built == execute_plan_request_with_metadata(FreshClient(TRUE), 1)
        out == handle_response(built.self, resp)
    IN  [ self |-> out.self,
          sent |-> << built.req, release_until(out.self) >>,
          result |-> error_after_release(TRUE, TRUE),
          ops |-> 1, msgs |-> 1,
          last_event |-> TransportError,
          last_accepted |-> Some(resp) ]

\* a client that made no execute call yet
BeforeAnyOperation(setting) ==
    [ self |-> FreshClient(setting), sent |-> << >>, result |-> "None",
      ops |-> 0, msgs |-> 0, last_event |-> NoEvent, last_accepted |-> None ]

\* the client between two execute calls, when the tag and interrupt calls are made
InitCalls ==
    /\ \E d \in { BeforeAnyOperation(b) : b \in BOOLEAN }
                 \cup { AfterOneOperation(r) : r \in FirstResponses } :
          /\ operation_id = d.self.operation_id
          /\ response_id = d.self.response_id
          /\ handler = d.self.handler
          /\ use_reattachable_execute = d.self.use_reattachable_execute
          /\ sent = d.sent
          /\ result = d.result
          /\ ops = d.ops
          /\ msgs = d.msgs
          /\ last_event = d.last_event
          /\ last_accepted = d.last_accepted
    /\ pc = "idle"
    /\ entry = "none"
    /\ depth = 0
    /\ tags = << >>
    /\ call = NoCall
    /\ analyzer = AnalyzeHandlerDefault
    /\ task = [ t \in Clones |-> NewClone ]
    /\ holds = [ t \in Clones |-> FALSE ]

NextCalls ==
    \/ \E tag \in TagInputs : AddTag(tag)
    \/ \E tag \in TagInputs : RemoveTag(tag)
    \/ ClearTags
    \/ \E interrupt_type \in InterruptTypes, id_or_tag \in IdOrTagInputs, rpc_ok \in BOOLEAN :
          InterruptCall(interrupt_type, id_or_tag, rpc_ok)

SpecCalls == InitCalls /\ [][NextCalls]_vars

\* ---------------------------------------------------------------- analyze calls
\* analyze(analyze)
Analyze(kind, outcome) ==
    /\ pc = "idle"
    /\ analyzer' = analyze(analyzer, outcome).analyzer
    /\ call' = [ op |-> "analyze", analyze |-> kind, outcome |-> outcome,
                 res |-> analyze(analyzer, outcome).res, read |-> None ]
    /\ UNCHANGED << driver_vars, stub_vars, tags >>

\* one of the readers schema(), explain(), ..., get_storage_level()
Read(slot) ==
    /\ pc = "idle"
    /\ call.op = "analyze"
    /\ call' = [ call EXCEPT !.read = Some([ slot |-> slot, out |-> reader(analyzer, slot) ]) ]
    /\ UNCHANGED << driver_vars, stub_vars, tags, analyzer >>

NextAnalyze ==
    \/ \E kind \in AnalyzeInputs, outcome \in { None } \cup { Some(r) : r \in AnalyzeResponses } :
          Analyze(kind, outcome)
    \/ \E slot \in AnalyzeSlots : Read(slot)

\* the client when the analyze calls are made: fresh, or holding the batches
\* of an earlier operation
InitAnalyze ==
    /\ InitCalls
    /\ ops = 0 => use_reattachable_execute
    /\ ops = 1 => Len(handler.batches) > 0

SpecAnalyze == InitAnalyze /\ [][NextAnalyze]_vars

\* ---------------------------------------------------------------- clones sharing the stub

\* the calls that take the guard for one unary RPC and return its response:
\* analyze, config_request, interrupt_request
UnaryCalls == { "analyze", "config", "interrupt" }

\* the clone is at `self.stub.write().await`
LockPoints == { "execute_lock", "reattach_lock", "release_lock",
                "analyze_lock", "config_lock", "interrupt_lock" }
\* the clone is between taking the guard and the end of the RPC call
DialPoints == { "execute_dial", "reattach_dial", "release_dial",
                "analyze_dial", "config_dial", "interrupt_dial" }

\* where a unary call waits for the guard
LockPointOf(rpc) ==
    CASE rpc = "analyze" -> "analyze_lock"
      [] rpc = "config" -> "config_lock"
      [] rpc = "interrupt" -> "interrupt_lock"

\* the RPC call that follows each `self.stub.write().await`
DialPointAfter(at) ==
    CASE at = "execute_lock" -> "execute_dial"
      [] at = "reattach_lock" -> "reattach_dial"
      [] at = "release_lock" -> "release_dial"
      [] at = "analyze_lock" -> "analyze_dial"
      [] at = "config_lock" -> "config_dial"
      [] at = "interrupt_lock" -> "interrupt_dial"

\* a guard that execute_and_fetch keeps while it drains the stream
guard_after_dial_kept_by_execute(rpc) == rpc = "ExecutePlan"

\* whether the write guard of the stub is still alive once the dial of rpc
\* returned a stream: drop(client) in execute_and_fetch and reattach_execute
guard_after_dial(rpc) == FALSE

\* the call of clone t returns to its caller: every guard it owns goes out of scope
TaskReturn(t) ==
    /\ task' = [ task EXCEPT ![t] = TaskIdle(@.self) ]
    /\ holds' = [ holds EXCEPT ![t] = FALSE ]

\* clone t calls set_reattachable_execute(setting)
TaskSetReattachableExecute(t, setting) ==
    /\ task[t].at = "idle"
    /\ task' = [ task EXCEPT ![t].self.use_reattachable_execute = setting ]
    /\ UNCHANGED holds
    /\ UNCHANGED << driver_vars, calls_vars >>

\* clone t calls execute_and_fetch, up to `self.stub.write().await`; its
\* response_id and handler are those of its previous call
TaskExecute(t) ==
    /\ task[t].at = "idle"
    /\ task' = [ task EXCEPT ![t].at = "execute_lock" ]
    /\ UNCHANGED holds
    /\ UNCHANGED << driver_vars, calls_vars >>

\* clone t calls analyze, config_request or interrupt_request (with a type
\* that reaches the RPC), up to `self.stub.write().await`
TaskUnaryCall(t, rpc) ==
    /\ task[t].at = "idle"
    /\ task' = [ task EXCEPT ![t].at = LockPointOf(rpc) ]
    /\ UNCHANGED holds
    /\ UNCHANGED << driver_vars, calls_vars >>

\* the unary RPC of clone t returns its response or its error: the guard is
\* dropped (drop(client) in analyze, the end of the function in
\* config_request and interrupt_request, `?` on an error) and the call
\* returns without asking for the lock again
TaskUnaryDial(t) ==
    /\ task[t].at \in { DialPointAfter(LockPointOf(rpc)) : rpc \in UnaryCalls }
    /\ TaskReturn(t)
    /\ UNCHANGED << driver_vars, calls_vars >>

\* `self.stub.write().await` completes for clone t: RwLock::write grants the
\* guard when no other guard is alive
LockAcquire(t) ==
    /\ task[t].at \in LockPoints
    /\ \A u \in Clones : ~holds[u]
    /\ holds' = [ holds EXCEPT ![t] = TRUE ]
    /\ task' = [ task EXCEPT ![t].at = DialPointAfter(@) ]
    /\ UNCHANGED << driver_vars, calls_vars >>

\* execute_and_fetch: client.execute_plan(req).await? ; drop(client); handler reset
TaskExecuteDial(t, dial_ok) ==
    /\ task[t].at = "execute_dial"
    /\ IF dial_ok
       THEN /\ task' = [ task EXCEPT ![t].at = "stream",
                                      ![t].self.handler.result_complete = FALSE ]
            /\ holds' = [ holds EXCEPT ![t] = guard_after_dial("ExecutePlan") ]
       ELSE TaskReturn(t)
    /\ UNCHANGED << driver_vars, calls_vars >>

\* what handle_response does with a message, as far as the lock discipline
\* reads it: "refused" by validate_session before anything is stored;
\* "failed" after the ids were stored (an error of deserialize, the
\* unimplemented! of the Extension arm); "recorded"; "complete" (recorded,
\* with the completion marker)
MessageOutcomes == { "refused", "failed", "recorded", "complete" }

\* process_stream, Ok(Some(msg)) arm, for clone t
TaskMessage(t, outcome) ==
    /\ task[t].at = "stream"
    /\ LET stored == DriverFields(task[t].self.use_reattachable_execute, TRUE,
                                  task[t].self.handler.result_complete \/ outcome = "complete")
       IN CASE outcome = "refused" -> TaskReturn(t)
            [] outcome = "failed" ->
                  /\ task' = [ task EXCEPT ![t] = TaskIdle(stored) ]
                  /\ holds' = [ holds EXCEPT ![t] = FALSE ]
            [] OTHER ->
                  /\ task' = [ task EXCEPT ![t].self = stored ]
                  /\ UNCHANGED holds
    /\ UNCHANGED << driver_vars, calls_vars >>

\* process_stream, Ok(None) arm, for clone t
TaskStreamEnd(t) ==
    /\ task[t].at = "stream"
    /\ IF reattach_on_end(task[t].self)
       THEN /\ task[t].depth < MaxReattach
            /\ task' = [ task EXCEPT ![t].at = "reattach_lock" ]
       ELSE task' = [ task EXCEPT ![t].at = "unwind" ]
    /\ UNCHANGED holds
    /\ UNCHANGED << driver_vars, calls_vars >>

\* reattach_execute: client.reattach_execute(req).await? ; drop(client)
TaskReattachDial(t, dial_ok) ==
    /\ task[t].at = "reattach_dial"
    /\ IF dial_ok
       THEN /\ task' = [ task EXCEPT ![t].at = "stream", ![t].depth = @ + 1 ]
            /\ holds' = [ holds EXCEPT ![t] = guard_after_dial("ReattachExecute") ]
       ELSE TaskReturn(t)
    /\ UNCHANGED << driver_vars, calls_vars >>

\* process_stream, Err(err) arm, for clone t
TaskStreamError(t) ==
    /\ task[t].at = "stream"
    /\ IF release_on_error(task[t].self)
       THEN /\ task' = [ task EXCEPT ![t].at = "release_lock", ![t].then = "error" ]
            /\ UNCHANGED holds
       ELSE TaskReturn(t)
    /\ UNCHANGED << driver_vars, calls_vars >>

\* the tail of reattach_execute / execute_and_fetch of clone t once
\* process_stream returned Ok
TaskUnwind(t) ==
    /\ task[t].at = "unwind"
    /\ IF release_on_complete(task[t].self)
       THEN /\ task' = [ task EXCEPT ![t].at = "release_lock", ![t].then = "unwind" ]
            /\ UNCHANGED holds
       ELSE IF task[t].depth > 0
            THEN /\ task' = [ task EXCEPT ![t].depth = @ - 1 ]
                 /\ UNCHANGED holds
            ELSE TaskReturn(t)
    /\ UNCHANGED << driver_vars, calls_vars >>

\* release_execute: client.release_execute(req).await? ; the guard lives to
\* the end of the function
TaskReleaseDial(t, release_ok) ==
    /\ task[t].at = "release_dial"
    /\ IF release_ok /\ task[t].then = "unwind" /\ task[t].depth > 0
       THEN /\ task' = [ task EXCEPT ![t].at = "unwind", ![t].depth = @ - 1,
                                      ![t].then = "none" ]
            /\ holds' = [ holds EXCEPT ![t] = FALSE ]
       ELSE TaskReturn(t)
    /\ UNCHANGED << driver_vars, calls_vars >>

NextLock ==
    \E t \in Clones :
        \/ \E setting \in BOOLEAN : TaskSetReattachableExecute(t, setting)
        \/ TaskExecute(t)
        \/ \E rpc \in UnaryCalls : TaskUnaryCall(t, rpc)
        \/ LockAcquire(t)
        \/ TaskUnaryDial(t)
        \/ \E dial_ok \in BOOLEAN : TaskExecuteDial(t, dial_ok)
        \/ \E outcome \in MessageOutcomes : TaskMessage(t, outcome)
        \/ TaskStreamEnd(t)
        \/ \E dial_ok \in BOOLEAN : TaskReattachDial(t, dial_ok)
        \/ TaskStreamError(t)
        \/ TaskUnwind(t)
        \/ \E release_ok \in BOOLEAN : TaskReleaseDial(t, release_ok)

\* the clones when the calls start: each is the clone of a client on which
\* no operation ran, or of one that keeps the response_id of its latest
\* operation
InitLock ==
    /\ NewClient
    /\ task \in [ Clones -> { TaskIdle(DriverFields(TRUE, has_response_id, FALSE)) :
                                  has_response_id \in BOOLEAN } ]
    /\ holds = [ t \in Clones |-> FALSE ]

SpecLock == InitLock /\ [][NextLock]_vars

\* ---------------------------------------------------------------- observations
Last(s) == s[Len(s)]

\* the running / latest operation was executed in reattachable mode
\* (its ExecutePlanRequest carries ReattachOptions)
ReattachableOp == Len(sent) > 0 /\ sent[1].request_options # << >>

\* the running / latest operation was started with a request built by
\* execute_plan_request_with_metadata, which minted its operation id
MintedOp == Len(sent) > 0 /\ is_some(sent[1].operation_id)

IsReattach(r) == r.rpc = "ReattachExecute"
IsRelease(r) == r.rpc = "ReleaseExecute"
IsReleaseAll(r) == IsRelease(r) /\ r.release = Some(ReleaseAll)
IsReleaseUntil(r) == IsRelease(r) /\ r.release # Some(ReleaseAll)

NumReleaseAll == Cardinality({ i \in 1..Len(sent) : IsReleaseAll(sent[i]) })

\* ---------------------------------------------------------------- C1
\* C1: in reattachable mode an operation whose stream delivered ResultComplete
\* gets ReleaseAll exactly once: never more than one ReleaseAll is on the wire
\* for one operation, and a successful return has sent exactly one.
C1_ReleaseAllExactlyOnce ==
    /\ NumReleaseAll <= 1
    /\ (pc = "idle" /\ result = "Ok" /\ ReattachableOp /\ handler.result_complete)
          => NumReleaseAll = 1

\* ---------------------------------------------------------------- C2
\* the step is the Ok(None) arm of process_stream
IsStreamEndStep == pc = "stream" /\ last_event' = EndOfStream /\ vars' # vars

\* C2: in reattachable mode, when a stream ends (EOF) after responses r1..rK
\* (K >= 1) were processed and no ResultComplete was handled, the very next
\* request on the wire is ReattachExecute with the operation id those
\* responses carry and last_response_id = rK.
C2_ReattachResumption ==
    [][ (IsStreamEndStep /\ use_reattachable_execute /\ ~handler.result_complete
            /\ is_some(last_accepted))
        => sent' = Append(sent,
                [ rpc |-> "ReattachExecute",
                  session_id |-> session_id,
                  operation_id |-> unwrap(last_accepted).operation_id,
                  last_response_id |-> Some(unwrap(last_accepted).response_id) ]) ]_vars

\* a stream ended after an accepted response and the reattach went out
C2_Witness ==
    /\ last_event = EndOfStream
    /\ pc = "stream"
    /\ depth = 1
    /\ is_some(last_accepted)
    /\ unwrap(last_accepted).operation_id = MintedId
    /\ IsReattach(Last(sent))
    /\ Last(sent).operation_id = MintedId
    /\ Last(sent).last_response_id = Some(unwrap(last_accepted).response_id)

\* ---------------------------------------------------------------- C3
\* C3 as stated: after a transport error on the stream with at least one
\* response processed, ReleaseUntil(last response id) has been sent when the
\* call returns, in reattachable mode and in non-reattachable mode alike.
C3_ReleaseUntilEveryMode ==
    (last_event = TransportError /\ is_some(last_accepted))
        => /\ IsReleaseUntil(Last(sent))
           /\ Last(sent).release = Some(ReleaseUntil(unwrap(last_accepted).response_id))

\* C3 amended: after a transport error on the stream with at least one
\* response processed, an operation run in reattachable mode has sent
\* ReleaseUntil(last response id) as its last request when the call returns an
\* error; an operation run with reattachable off has sent no ReleaseExecute
\* and returns the stream error.
C3_ReleaseUntilReattachable ==
    (last_event = TransportError /\ is_some(last_accepted))
        => /\ pc = "idle"
           /\ IF ReattachableOp
              THEN /\ IsReleaseUntil(Last(sent))
                   /\ Last(sent).release = Some(ReleaseUntil(unwrap(last_accepted).response_id))
                   /\ Last(sent).operation_id = unwrap(last_accepted).operation_id
                   /\ result \in { "StreamError", "ReleaseError" }
              ELSE /\ \A i \in 1..Len(sent) : ~IsRelease(sent[i])
                   /\ result = "StreamError"

\* a transport error hit a reattachable operation after an accepted response
C3_Witness ==
    /\ last_event = TransportError
    /\ is_some(last_accepted)
    /\ ReattachableOp
    /\ result = "StreamError"
    /\ IsReleaseUntil(Last(sent))

\* ---------------------------------------------------------------- C4
\* C4: when a stream transport error occurred, the error execute_and_fetch
\* returns is that stream error, also when the best-effort ReleaseUntil failed.
C4_PrimaryErrorKept ==
    (pc = "idle" /\ last_event = TransportError) => result = "StreamError"

\* ---------------------------------------------------------------- C5
\* the step handles one stream message (the Ok(Some(msg)) arm)
IsMessageStep == msgs' = msgs + 1

\* C5: a response with a foreign session id fails the operation with the
\* session-mismatch error and changes neither the accumulator nor
\* operation_id nor response_id, and nothing is put on the wire from then
\* until the next execute.
C5_SessionMismatchInert ==
    [][ /\ (IsMessageStep /\ last_event'.msg.session_id # session_id)
            => /\ handler' = handler
               /\ operation_id' = operation_id
               /\ response_id' = response_id
               /\ sent' = sent
               /\ pc' = "idle"
               /\ result' = "SessionMismatch"
        /\ (pc = "idle" /\ result = "SessionMismatch" /\ ops' = ops)
            => sent' = sent ]_vars

\* a foreign-session response arrived after the operation had accumulated a batch
C5_Witness ==
    /\ pc = "idle"
    /\ result = "SessionMismatch"
    /\ last_event.kind = "message"
    /\ last_event.msg.session_id = OtherSession
    /\ Len(handler.batches) > 0
    /\ is_some(response_id)
    /\ ~IsRelease(Last(sent))

\* ---------------------------------------------------------------- C6
\* C6: from the start of an execute until its first response is accepted,
\* response_id is absent, so no ReattachExecute sent in that window carries a
\* response id and no ReleaseUntil is sent in it.
C6_ResponseIdResetPerOperation ==
    (Len(sent) > 0 /\ ~is_some(last_accepted))
        => /\ (pc # "idle" => response_id = None)
           /\ \A i \in 1..Len(sent) :
                /\ IsReattach(sent[i]) => sent[i].last_response_id = None
                /\ ~IsReleaseUntil(sent[i])

\* ---------------------------------------------------------------- C7
\* C7: when an ArrowBatch fails with a framing error and an earlier response
\* of the operation had been processed, ReleaseUntil is the last request sent
\* when the framing error is returned (reattachable mode).
C7_ReleaseOnFramingError ==
    (pc = "idle" /\ result = "FramingError" /\ msgs >= 2 /\ ReattachableOp)
        => IsReleaseUntil(Last(sent))

\* ---------------------------------------------------------------- C8
\* C8: once result_complete is true, within the same operation no further
\* message is dispatched, no ReattachExecute is sent and result_complete
\* stays true.
C8_NoStreamingAfterComplete ==
    [][ (handler.result_complete /\ pc # "idle" /\ ops' = ops)
        => /\ ~IsMessageStep
           /\ handler'.result_complete
           /\ (sent' # sent => ~IsReattach(Last(sent'))) ]_vars

\* the step is execute_plan_request_with_metadata() called on its own: a new
\* operation id is stored and nothing is sent
IsMintOnlyStep == ops' # ops /\ operation_id' # operation_id /\ sent' = sent

\* the step starts an operation: its ExecutePlan request replaces the
\* record of the requests of the operation before
IsExecuteStep == ops' # ops /\ ~IsMintOnlyStep

\* ---------------------------------------------------------------- C9
\* C9 as stated: every ReattachExecute and ReleaseExecute of an operation
\* carries the operation id minted for it, whatever responses were handled.
C9_MintedIdOnEveryRequest ==
    MintedOp => \A i \in 2..Len(sent) : sent[i].operation_id = unwrap(sent[1].operation_id)

\* C9 amended: every ReattachExecute and ReleaseExecute of an operation
\* carries the operation id of the latest response that passed session
\* validation, and the minted id when no response has passed yet; so the
\* minted id stays on the wire as long as the responses echo it.
C9_OperationIdOnRequests ==
    [][ (MintedOp /\ ops' = ops /\ Len(sent') = Len(sent) + 1)
        => Last(sent').operation_id =
              (IF is_some(last_accepted) THEN unwrap(last_accepted).operation_id
               ELSE MintedId) ]_vars

\* a release went out under an operation id the server substituted
C9_Witness ==
    /\ MintedOp
    /\ Len(sent) > 1
    /\ IsRelease(Last(sent))
    /\ is_some(last_accepted)
    /\ unwrap(last_accepted).operation_id = ForeignOperationId
    /\ Last(sent).operation_id = ForeignOperationId

\* ---------------------------------------------------------------- C10
\* C10: after a response that passed session validation is handled, the
\* recorded response_id is that response's id, on the first stream and on
\* reattached streams, whatever its payload did.
C10_ResponseIdIsLastHandled ==
    (last_event.kind = "message" /\ last_event.msg.session_id = session_id)
        => response_id = Some(last_event.msg.response_id)

\* a second response was handled on a reattached stream
C10_Witness ==
    /\ last_event.kind = "message"
    /\ last_event.msg.session_id = session_id
    /\ depth = 1
    /\ msgs = 2
    /\ response_id = Some(ResponseIdOf(ops, 2))

\* ---------------------------------------------------------------- C11
\* the response ids the server assigns within the o-th operation
ResponseIdsOf(o) == { ResponseIdOf(o, k) : k \in 1..MaxMsgs }

OptionValues(o) == IF is_some(o) THEN { unwrap(o) } ELSE { }

\* the response ids whose content the accumulator h holds
ContentOrigins(h) ==
    { h.batches[i].id : i \in 1..Len(h.batches) }
    \cup OptionValues(h.schema) \cup OptionValues(h.metrics)
    \cup OptionValues(h.sql_command_result)
    \cup OptionValues(h.write_stream_operation_start_result)
    \cup OptionValues(h.streaming_query_command_result)
    \cup OptionValues(h.get_resources_command_result)
    \cup OptionValues(h.streaming_query_manager_command_result)

\* C11: after the second of two consecutive execute_and_fetch calls has
\* returned, everything in the accumulator (batches, row count, schema,
\* metrics, command results, completion flag) stems from responses of the
\* second operation, whether the first call succeeded or failed: the step
\* that starts an execute_and_fetch call after an earlier one leaves the
\* accumulator empty, and every later step of the call adds only what
\* responses of the running operation carry.
C11_AccumulatorResetPerCall ==
    [][ /\ (IsExecuteStep /\ Len(sent) > 0) => handler' = ResponseHandlerDefault
        /\ (~IsExecuteStep /\ Len(sent) > 0)
              => ContentOrigins(handler') \subseteq
                    (ContentOrigins(handler) \cup ResponseIdsOf(ops)) ]_vars

\* ---------------------------------------------------------------- C12
\* the batches a step appended to the accumulator
NewBatches == SubSeq(handler'.batches, Len(handler.batches) + 1, Len(handler'.batches))

\* the step handles an accepted response that carries an ArrowBatch
IsArrowBatchStep ==
    /\ IsMessageStep
    /\ last_event'.msg.session_id = session_id
    /\ is_some(last_event'.msg.response_type)
    /\ unwrap(last_event'.msg.response_type).type = "ArrowBatch"

\* C12: every stored batch has the row count its ArrowBatch response
\* advertised and total_count is the sum of the stored batches' rows; batches
\* are appended only by an ArrowBatch response, in its order, and the first
\* decoded batch whose row count differs from the advertised one is not
\* appended, nor any after it, and the call returns a framing error.
C12_RowCountAgreement ==
    /\ [](handler.total_count = SumRows(handler.batches))
    /\ [][ IF IsArrowBatchStep
           THEN LET ab == unwrap(last_event'.msg.response_type)
                    bs == ab.data.batches
                IN  /\ Len(handler'.batches) >= Len(handler.batches)
                    /\ SubSeq(handler'.batches, 1, Len(handler.batches)) = handler.batches
                    /\ Len(NewBatches) <= Len(bs)
                    /\ \A i \in 1..Len(NewBatches) :
                          /\ NewBatches[i] = bs[i]
                          /\ NewBatches[i].num_rows = ab.row_count
                    /\ \A i \in 1..Len(bs) :
                          ( /\ ab.data.readable
                            /\ bs[i].ok /\ bs[i].num_rows # ab.row_count
                            /\ \A j \in 1..(i - 1) : bs[j].ok /\ bs[j].num_rows = ab.row_count )
                          => /\ Len(NewBatches) = i - 1
                             /\ pc' = "idle"
                             /\ result' = "FramingError"
           ELSE handler'.batches = handler.batches \/ handler'.batches = << >> ]_vars

\* a response framed two batches, the first agreed and was stored, the second
\* did not and the call returned the framing error
C12_Witness ==
    /\ pc = "idle"
    /\ result = "FramingError"
    /\ last_event.kind = "message"
    /\ Len(unwrap(last_event.msg.response_type).data.batches) = 2
    /\ Len(handler.batches) = 1
    /\ handler.batches[1].num_rows = unwrap(last_event.msg.response_type).row_count
    /\ handler.total_count = 1

\* a tag validate_tag must refuse
InvalidTag(tag) == is_empty(tag) \/ contains(tag, ",")

\* C13: after any sequence of add_tag, remove_tag and clear_tags calls no
\* element of tags is empty or contains ','; an add_tag or remove_tag call with
\* an empty or comma-bearing tag failed and left tags as they were.
C13_TagsValid ==
    /\ \A i \in 1..Len(tags) : ~InvalidTag(tags[i])
    /\ (call.op \in { "add_tag", "remove_tag" } /\ InvalidTag(call.tag))
           => (call.res # "Ok" /\ tags = call.before)

\* an add_tag("") was refused on a client that already holds a tag
C13_Witness ==
    /\ call.op = "add_tag"
    /\ call.tag = << >>
    /\ call.res = "TagIsEmpty"
    /\ Len(tags) > 0

\* the number of tags of ts equal to tag
Occurrences(ts, tag) == Cardinality({ i \in 1..Len(ts) : ts[i] = tag })

\* the position in the result of retain of the survivor at position i of ts
SurvivorIndex(ts, tag, i) == i - Occurrences(SubSeq(ts, 1, i), tag)

\* C14: a successful add_tag appends its tag to the tags it found (nothing
\* else moves, duplicates stay); a successful remove_tag(t) leaves no
\* occurrence of t and keeps every other tag, in the order they had.
C14_AddAppendsRemoveFilters ==
    /\ (call.op = "add_tag" /\ ~InvalidTag(call.tag))
           => /\ call.res = "Ok"
              /\ Len(tags) = Len(call.before) + 1
              /\ SubSeq(tags, 1, Len(call.before)) = call.before
              /\ tags[Len(tags)] = call.tag
    /\ (call.op = "remove_tag" /\ ~InvalidTag(call.tag))
           => /\ call.res = "Ok"
              /\ Occurrences(tags, call.tag) = 0
              /\ Len(tags) = Len(call.before) - Occurrences(call.before, call.tag)
              /\ \A i \in 1..Len(call.before) :
                    call.before[i] # call.tag
                        => tags[SurvivorIndex(call.before, call.tag, i)] = call.before[i]
    /\ (call.op = "remove_tag" /\ call.before = << call.tag, call.tag >>)
           => tags = << >>

\* remove_tag(x) found the tag twice, around another tag, and left only the other
C14_Witness ==
    /\ call.op = "remove_tag"
    /\ call.res = "Ok"
    /\ Len(call.before) = 3
    /\ call.before[1] = call.tag
    /\ call.before[2] # call.tag
    /\ call.before[3] = call.tag
    /\ tags = << call.before[2] >>

\* the request on the wire for an interrupt of the given type and payload
InterruptOnWire(interrupt_type, interrupt) ==
    Some([ rpc |-> "Interrupt", session_id |-> session_id,
           interrupt_type |-> interrupt_type, interrupt |-> interrupt ])

\* a step that is an interrupt_request call
IsInterruptStep == call' # call /\ call'.op = "interrupt_request"

\* C15: interrupt_request sends, for All, a request of type All without
\* payload whatever id_or_tag is; for Tag with a value v, type Tag with
\* OperationTag(v); for OperationId with a value v, type OperationId with
\* OperationId(v); for Unspecified it returns an analysis error and sends
\* nothing. The call leaves operation_id, response_id, tags and the
\* accumulators as they were.
C15_InterruptRequestByKind ==
    /\ [](call.op = "interrupt_request"
            => /\ call.interrupt_type = "All"
                     => call.req = InterruptOnWire("All", None)
               /\ (call.interrupt_type = "Tag" /\ is_some(call.id_or_tag))
                     => call.req = InterruptOnWire("Tag",
                            Some([ type |-> "OperationTag", v |-> unwrap(call.id_or_tag) ]))
               /\ (call.interrupt_type = "OperationId" /\ is_some(call.id_or_tag))
                     => call.req = InterruptOnWire("OperationId",
                            Some([ type |-> "OperationId", v |-> unwrap(call.id_or_tag) ]))
               /\ call.interrupt_type = "Unspecified"
                     => (call.req = None /\ call.res = "AnalysisException"))
    /\ [][IsInterruptStep
            => UNCHANGED << operation_id, response_id, tags, handler >>]_vars

\* interrupt_request(All, Some("a")) succeeded on a client that holds tags
\* and the ids and accumulators of an earlier operation
C15_Witness ==
    /\ call.op = "interrupt_request"
    /\ call.interrupt_type = "All"
    /\ call.id_or_tag = Some(<< "a" >>)
    /\ call.res = "Ok"
    /\ Len(tags) > 0
    /\ is_some(response_id)
    /\ handler # ResponseHandlerDefault

\* the latest item of the stream is a response of this session with an
\* Extension payload
ExtensionReceived ==
    /\ last_event.kind = "message"
    /\ last_event.msg.session_id = session_id
    /\ last_event.msg.response_type = Some(Extension)

\* to_arrow panicked on handler.batches[0]: execute_and_fetch had returned Ok
\* and no batch was stored
ToArrowIndexPanic ==
    /\ pc = "panicked"
    /\ entry \in { "to_arrow", "to_first_value" }
    /\ last_event = EndOfStream
    /\ Len(handler.batches) = 0

\* to_first_value panicked on the rows to_arrow returned
FirstValuePanic ==
    /\ pc = "panicked"
    /\ entry = "to_first_value"
    /\ last_event = EndOfStream
    /\ Len(handler.batches) > 0
    /\ LET out == concat_batches(handler.batches[1].schema, handler.batches)
       IN out.res = "Ok" /\ first_value(out.rows) = "Panic"

\* a panic of a caller of execute_and_fetch after execute_and_fetch returned Ok
AfterFetchPanic == ToArrowIndexPanic \/ FirstValuePanic

\* C16: a response with an Extension payload makes the operation end with an
\* Unimplemented error that execute_and_fetch returns to its caller as an
\* error value.
C16_ExtensionReturnsUnimplemented ==
    ExtensionReceived => (pc = "idle" /\ result = "Unimplemented")

\* the error values execute_and_fetch returns
ErrorResults ==
    { "SessionMismatch", "DecodeError", "FramingError", "StreamError", "ReleaseError",
      "DialError" }

\* an ArrowBatch payload in which a decoded batch disagrees with row_count
\* before any batch fails to decode
FramingMismatch(p) ==
    /\ p.type = "ArrowBatch"
    /\ p.data.readable
    /\ \E i \in 1..Len(p.data.batches) :
          /\ \A j \in 1..i : p.data.batches[j].ok
          /\ p.data.batches[i].num_rows # p.row_count

\* the step delivers a response of another session, or one with a framing error
IsRejectedMessageStep ==
    /\ IsMessageStep
    /\ \/ last_event'.msg.session_id # session_id
       \/ /\ is_some(last_event'.msg.response_type)
          /\ FramingMismatch(unwrap(last_event'.msg.response_type))

\* the step is the stream yielding a transport error
IsStreamErrorStep == pc = "stream" /\ last_event' = TransportError

\* the requests the step put on the wire for the running operation
\* the requests the step put on the wire
NewlySent == IF IsExecuteStep THEN sent' ELSE SubSeq(sent', Len(sent) + 1, Len(sent'))

\* the step opens no stream: it sends neither ExecutePlan nor ReattachExecute
OpensNoStream ==
    \A i \in 1..Len(NewlySent) : IsRelease(NewlySent[i])

\* C17: a ReattachExecute goes on the wire only in the step in which the
\* stream ends gracefully, in reattachable mode, with result_complete false;
\* a session mismatch, a framing error, a transport error on the stream or a
\* failed dial ends execute_and_fetch with an error without opening another
\* stream, and once it has returned an error nothing more is sent for the
\* operation.
C17_ReattachOnlyOnGracefulEnd ==
    [][ /\ (ops' = ops /\ sent' # sent /\ IsReattach(Last(sent')))
              => /\ pc = "stream"
                 /\ last_event' = EndOfStream
                 /\ use_reattachable_execute
                 /\ ~handler.result_complete
                 /\ sent' = Append(sent, Last(sent'))
        /\ IsRejectedMessageStep
              => /\ pc' = "idle"
                 /\ result' \in { "SessionMismatch", "FramingError" }
                 /\ sent' = sent
        /\ IsStreamErrorStep
              => /\ pc' = "idle"
                 /\ result' \in { "StreamError", "ReleaseError" }
                 /\ OpensNoStream
        /\ (pc # "idle" /\ result' = "DialError")
              => (pc' = "idle" /\ Len(sent') = Len(sent) + 1)
        /\ (pc = "idle" /\ result \in ErrorResults /\ ops' = ops)
              => sent' = sent
      ]_vars

\* a reattached stream broke with a transport error and the call returned it
C17_Witness ==
    /\ pc = "idle"
    /\ result = "StreamError"
    /\ last_event = TransportError
    /\ \E i \in 1..Len(sent) : IsReattach(sent[i])
    /\ IsReleaseUntil(Last(sent))

\* C18: an operation executed with use_reattachable_execute = FALSE sends
\* only its ExecutePlan, no ReattachExecute and no ReleaseExecute; after the
\* end of the stream, with or without completion marker, execute_and_fetch
\* returns Ok with the accumulators as they were (to its caller: to_arrow and
\* to_first_value go on from there, and only their own reading of the batches
\* can fail).
C18_NoReattachNoReleaseWhenOff ==
    /\ []((Len(sent) > 0 /\ ~ReattachableOp)
            => /\ Len(sent) = 1
               /\ sent[1].rpc = "ExecutePlan"
               /\ last_event = EndOfStream
                     => /\ pc \in { "unwind", "idle", "to_arrow", "to_first_value", "panicked" }
                        /\ depth = 0
                        /\ pc \in { "to_arrow", "to_first_value" } => result = "Ok"
                        /\ pc = "idle" => result \in { "Ok", "ConcatError" }
                        /\ pc = "panicked" => AfterFetchPanic)
    /\ [][(Len(sent) > 0 /\ ~ReattachableOp /\ pc = "unwind")
            => /\ pc' = IF entry \in { "to_arrow", "to_first_value" } THEN "to_arrow" ELSE "idle"
               /\ result' = "Ok"
               /\ handler' = handler
               /\ sent' = sent]_vars

\* a non-reattachable operation ended on an end-of-stream without completion
\* marker and returned Ok with the batches received so far
C18_Witness ==
    /\ Len(sent) > 0
    /\ ~ReattachableOp
    /\ pc = "idle"
    /\ result = "Ok"
    /\ last_event = EndOfStream
    /\ ~handler.result_complete
    /\ Len(handler.batches) > 0

\* the clones that hold the write guard of the stub
Holders == { t \in Clones : holds[t] }

\* C19: the write guard of the stub is alive only between taking it and the
\* end of the RPC call it was taken for: at most one clone holds it, no clone
\* holds it while it drains a stream or runs the tail of a call, and a clone
\* that asks for the lock (execute, nested reattach_execute, nested
\* release_execute) does not hold it, so that the request is granted as soon
\* as the holder, which is at an RPC call, finishes.
C19_LockOnlyWhileDialling ==
    /\ Cardinality(Holders) <= 1
    /\ \A t \in Clones :
          /\ holds[t] <=> task[t].at \in DialPoints
          /\ task[t].at \in { "stream", "unwind" } => ~holds[t]
          /\ task[t].at \in LockPoints
                => /\ ~holds[t]
                   /\ Holders = { } => ENABLED LockAcquire(t)

\* one clone drains a stream while another clone holds the guard for the
\* reattach_execute it makes from inside process_stream
C19_Witness ==
    \E t \in Clones, u \in Clones :
        /\ task[t].at = "stream"
        /\ task[t].depth > 0
        /\ task[u].at = "reattach_dial"
        /\ holds[u]

\* C20: the ReattachExecute requests of one operation are bounded by the
\* progress of the server: a reattached stream that ends without a new
\* response and without completion is not followed by another
\* ReattachExecute with the same last_response_id.
C20_ReattachBoundedByProgress ==
    \A i \in 1..(Len(sent) - 1) :
        (IsReattach(sent[i]) /\ IsReattach(sent[i + 1]) /\ is_some(sent[i].last_response_id))
            => sent[i + 1].last_response_id # sent[i].last_response_id

\* the slots of the analyze accumulator that hold a value
Populated == { slot \in AnalyzeSlots : is_some(analyzer[slot]) }

\* the slot handle_analyze writes for each variant that has one
SlotOf(variant) ==
    CASE variant = "Schema" -> "schema"
      [] variant = "Explain" -> "explain"
      [] variant = "TreeString" -> "tree_string"
      [] variant = "IsLocal" -> "is_local"
      [] variant = "IsStreaming" -> "is_streaming"
      [] variant = "InputFiles" -> "input_files"
      [] variant = "SparkVersion" -> "spark_version"
      [] variant = "DdlParse" -> "ddl_parse"
      [] variant = "SameSemantics" -> "same_semantics"
      [] variant = "SemanticHash" -> "semantic_hash"
      [] variant = "GetStorageLevel" -> "get_storage_level"

\* the latest analyze call got a response of this session that carries a
\* result other than Persist and Unpersist
AnalyzeDelivered ==
    /\ call.op = "analyze"
    /\ is_some(call.outcome)
    /\ unwrap(call.outcome).session_id = session_id
    /\ is_some(unwrap(call.outcome).result)
    /\ unwrap(unwrap(call.outcome).result).type \notin { "Persist", "Unpersist" }

\* C21: at most one slot of the analyze accumulator is populated, and it is
\* the slot of the variant the latest analyze response carried, holding what
\* that response carried; every slot is empty when the latest analyze call
\* failed (RPC error, session mismatch) or its response was Persist, Unpersist
\* or without result; a reader returns an analysis error exactly when its
\* slot is empty, and the slot's value otherwise.
C21_AnalyzeSlots ==
    /\ Cardinality(Populated) <= 1
    /\ call.op # "analyze" => Populated = { }
    /\ call.op = "analyze"
          => /\ ~AnalyzeDelivered => Populated = { }
             /\ call.res # "Ok" => Populated = { }
             /\ AnalyzeDelivered
                   => LET r == unwrap(unwrap(call.outcome).result)
                      IN  /\ call.res = "Ok"
                          /\ Populated \subseteq { SlotOf(r.type) }
                          /\ r.type \in OptionalPayloadVariants
                                => analyzer[SlotOf(r.type)] = r.field
                          /\ r.type \notin OptionalPayloadVariants
                                => analyzer[SlotOf(r.type)] = Some(r.v)
             /\ is_some(call.read)
                   => LET rd == unwrap(call.read)
                      IN  /\ rd.out.res = "AnalysisException" <=> rd.slot \notin Populated
                          /\ rd.out.res = "Ok" <=> rd.slot \in Populated
                          /\ rd.out.res = "Ok" => analyzer[rd.slot] = Some(rd.out.v)

\* on a client that holds the batches of an earlier operation, an analyze
\* call got an Explain response and explain() returned its text
C21_Witness ==
    /\ call.op = "analyze"
    /\ AnalyzeDelivered
    /\ unwrap(unwrap(call.outcome).result) = AnalyzeResult("Explain", "y")
    /\ call.read = Some([ slot |-> "explain", out |-> [ res |-> "Ok", v |-> "y" ] ])
    /\ Len(handler.batches) > 0

\* the step in which execute_and_fetch returns Ok
IsOkReturnStep == result # "Ok" /\ result' = "Ok"

\* C22: an operation executed in reattachable mode returns Ok only with
\* result_complete true, from the step that sent the final ReleaseAll (a
\* failed release returns the release error instead); a stream that ends
\* without completion does not lead to the tail of the call, hence not to Ok.
C22_OkOnlyWhenComplete ==
    /\ []((ReattachableOp /\ pc = "idle" /\ result = "Ok")
            => /\ handler.result_complete
               /\ IsReleaseAll(Last(sent))
               /\ last_event = EndOfStream)
    /\ [][(ReattachableOp /\ IsOkReturnStep)
            => /\ pc = "unwind"
               /\ depth = 0
               /\ handler.result_complete
               /\ handler' = handler
               /\ sent' = Append(sent, release_all(Self))]_vars
    /\ [][(ReattachableOp /\ IsStreamEndStep /\ ~handler.result_complete)
            => /\ pc' # "unwind"
               /\ result' # "Ok"]_vars

\* a reattachable operation returned Ok after a reattach: the batches are
\* there, the completion marker was handled and ReleaseAll was sent last
C22_Witness ==
    /\ ReattachableOp
    /\ pc = "idle"
    /\ result = "Ok"
    /\ handler.result_complete
    /\ Len(handler.batches) > 0
    /\ \E i \in 1..Len(sent) : IsReattach(sent[i])
    /\ IsReleaseAll(Last(sent))

\* C23: the unwraps of operation_id in reattach_execute and release_execute
\* and of response_id in release_until never meet None, whatever public
\* operations were called: the panics of the client are the one of the
\* Extension arm and those of to_arrow and to_first_value reading the
\* batches after execute_and_fetch returned.
C23_UnwrapsNeverFail ==
    pc = "panicked" => ExtensionReceived \/ AfterFetchPanic
====
